---- MODULE Spec2Model ----
(***************************************************************************)
(* DynamicProperty (src/js/DynamicProperty.js): a value holder that caches *)
(* whether its value can be cloned / compared, copies on store and on      *)
(* read when it can, and raises a definition-changed event on change.      *)
(*                                                                         *)
(* JavaScript is single threaded and every method runs to completion, so   *)
(* each action below is one complete call.  The variable last records the  *)
(* most recent call: its receiver and arguments, the receiver's fields     *)
(* before the call (pre), what it returned or that it threw, and the       *)
(* listener invocations it made, in order.                                 *)
(***************************************************************************)
EXTENDS Integers, Sequences, FiniteSets, TLC

\* Bounds of the model.
NumContents == 2      \* distinct contents a value object can have
NumListeners == 2     \* listener handles that can subscribe to an event
MaxTime == 1          \* getValue is called with a time in 0..MaxTime

(***************************************************************************)
(* Values.  A reference is a record; two references are the same object    *)
(* (JavaScript ===) exactly when the records are equal.  cap says which of *)
(* clone / equals the object has as functions, content is what its equals  *)
(* compares, owner and gen tell apart objects of the same cap and content: *)
(* the caller's objects, the caller's scratch object passed as result, the *)
(* copy a property made when storing (owner = that property), and the copy *)
(* getValue allocates for its caller (owner = "result").                   *)
(***************************************************************************)
Props == {"p", "q"}
Caps == {"both", "cloneOnly", "equalsOnly", "neither"}
Contents == 0 .. (NumContents - 1)
Times == 0 .. MaxTime
Listeners == 1 .. NumListeners

Undefined ==
    [kind |-> "undefined", cap |-> "neither", content |-> 0, owner |-> "none", gen |-> 0]

CallerObjects ==
    {[kind |-> "object", cap |-> c, content |-> x, owner |-> "caller", gen |-> 0] :
        c \in Caps, x \in Contents}

Scratch ==
    [kind |-> "object", cap |-> "both", content |-> 0, owner |-> "scratch", gen |-> 0]

VARIABLES value, hasClone, hasEquals, constant, listeners, last

vars == <<value, hasClone, hasEquals, constant, listeners, last>>

\* Cesium.defined(value)
Defined(v) == v.kind # "undefined"

\* typeof v.clone === 'function' / typeof v.equals === 'function', v defined
IsCloneFunction(v) == v.cap \in {"both", "cloneOnly"}
IsEqualsFunction(v) == v.cap \in {"both", "equalsOnly"}

\* var hasClone = isDefined && typeof value.clone === 'function';
DetectClone(v) == Defined(v) /\ IsCloneFunction(v)

\* var hasEquals = isDefined && typeof value.equals === 'function';
DetectEquals(v) == Defined(v) /\ IsEqualsFunction(v)

\* a.equals(b) of a value object: compares contents; nothing equals undefined.
ValueEquals(a, b) == Defined(b) /\ a.content = b.content

\* value.clone() in setValue: a new object of the same type and content, held
\* by property p alone.  gen makes it differ from the copy p held before.
StoreClone(p, v, old) ==
    [kind |-> "object", cap |-> v.cap, content |-> v.content, owner |-> p,
     gen |-> IF old.owner = p THEN 1 - old.gen ELSE 0]

\* this._value.clone(result) in getValue: fills and returns result when it is
\* given, else returns a new object.
CloneInto(v, result) ==
    IF Defined(result)
    THEN [result EXCEPT !.content = v.content]
    ELSE [kind |-> "object", cap |-> v.cap, content |-> v.content,
          owner |-> "result", gen |-> 0]

\* A setValue that lost its same-reference test.
DiffersFromAlways(old, v) == TRUE

\* if (oldValue !== value)
DiffersFrom(old, v) == old # v

\* A setValue that never suppresses an equal value.
ChangedAlways(v, old) == TRUE

\* A setValue that lost the "!hasEquals ||" of its comparison and goes by
\* the contents alone.
ChangedByContent(v, old) == ~ValueEquals(v, old)

\* var changed = !hasEquals || !value.equals(oldValue);
Changed(v, old) == ~DetectEquals(v) \/ ~ValueEquals(v, old)

\* A setValue that stores the caller's object without copying it.
StoredRaw(p, v, old) == v

\* this._value = !hasClone ? value : value.clone();
Stored(p, v, old) == IF ~DetectClone(v) THEN v ELSE StoreClone(p, v, old)

\* The fields of property p as a record.
Fields(p) ==
    [value |-> value[p], hasClone |-> hasClone[p], hasEquals |-> hasEquals[p],
     constant |-> constant[p], listeners |-> listeners[p]]

\* Event.raiseEvent(arg): every subscribed listener, in subscription order,
\* is called with arg.  Each entry also records what the listener can read
\* from the property at that moment.
RaiseEvent(ls, arg, seen) ==
    [i \in 1 .. Len(ls) |->
        [listener |-> ls[i], arg |-> arg, value |-> seen.value,
         hasClone |-> seen.hasClone, hasEquals |-> seen.hasEquals,
         constant |-> seen.constant]]

\* A notification that raises the event twice.
NotifyTwice(p, g) == RaiseEvent(g.listeners, p, g) \o RaiseEvent(g.listeners, p, g)

\* this._definitionChanged.raiseEvent(this), with the fields g of this
Notify(p, g) == RaiseEvent(g.listeners, p, g)

\* A setValue that raises the event before it stores the value.
SetValueOutcomeRaiseFirst(p, f, v) ==
    IF ~DiffersFrom(f.value, v)
    THEN [after |-> f, fired |-> FALSE, calls |-> <<>>]
    ELSE LET flagged == [f EXCEPT !.hasClone = DetectClone(v),
                                  !.hasEquals = DetectEquals(v)]
         IN  IF Changed(v, f.value)
             THEN [after |-> [flagged EXCEPT !.value = Stored(p, v, f.value)],
                   fired |-> TRUE, calls |-> Notify(p, flagged)]
             ELSE [after |-> flagged, fired |-> FALSE, calls |-> <<>>]

\* setValue on fields f of property p: the fields after the call, whether
\* the event was raised, and the listener calls made.
SetValueOutcome(p, f, v) ==
    IF ~DiffersFrom(f.value, v)
    THEN [after |-> f, fired |-> FALSE, calls |-> <<>>]
    ELSE LET flagged == [f EXCEPT !.hasClone = DetectClone(v),
                                  !.hasEquals = DetectEquals(v)]
         IN  IF Changed(v, f.value)
             THEN LET g == [flagged EXCEPT !.value = Stored(p, v, f.value)]
                  IN  [after |-> g, fired |-> TRUE,
                       calls |-> Notify(p, g)]
             ELSE [after |-> flagged, fired |-> FALSE, calls |-> <<>>]

\* What the record of a setValue call keeps of the call just before it, when
\* that was a setValue call on the same property: two calls in a row.
\* equalOld: its argument's equals found the value held before it equal.
Brief(c) ==
    [op |-> c.op, prop |-> c.prop, arg |-> c.arg,
     equalOld |-> ValueEquals(c.arg, c.pre.value), fired |-> c.fired]
NoCall ==
    [op |-> "none", prop |-> "p", arg |-> Undefined, equalOld |-> FALSE,
     fired |-> FALSE]
Before(op, p) ==
    IF op = "setValue" /\ last.op = "setValue" /\ last.prop = p
    THEN Brief(last) ELSE NoCall

\* The record of a call, with defaults for what the call does not have.
Record(op, p, pre, before) ==
    [op |-> op, prop |-> p, pre |-> pre, arg |-> Undefined, flag |-> FALSE,
     time |-> 0, result |-> Undefined, listener |-> 0, other |-> "absent",
     fired |-> FALSE, calls |-> <<>>, returned |-> Undefined, bool |-> FALSE,
     threw |-> FALSE, before |-> before]

\* The record of a call made now.
Call(op, p, pre) == Record(op, p, pre, Before(op, p))

\* function DynamicProperty(value): the fields before this.setValue(value).
Blank ==
    [value |-> Undefined, hasClone |-> FALSE, hasEquals |-> FALSE,
     constant |-> FALSE, listeners |-> <<>>]

CtorArgs == {Undefined} \cup CallerObjects

\* new DynamicProperty(vp) and new DynamicProperty(vq): no listener can be
\* subscribed before the constructor returns.
Constructed(vp, vq) ==
    LET arg == [r \in Props |-> IF r = "p" THEN vp ELSE vq]
        out == [r \in Props |-> SetValueOutcome(r, Blank, arg[r])]
    IN  /\ value = [r \in Props |-> out[r].after.value]
        /\ hasClone = [r \in Props |-> out[r].after.hasClone]
        /\ hasEquals = [r \in Props |-> out[r].after.hasEquals]
        /\ constant = [r \in Props |-> out[r].after.constant]
        /\ listeners = [r \in Props |-> out[r].after.listeners]
        /\ last = [Record("construct", "p", Blank, NoCall) EXCEPT
                      !.arg = vp, !.fired = out["p"].fired,
                     !.calls = out["p"].calls]

\* p is constructed with any value, q with none.
Init == \E vp \in CtorArgs : Constructed(vp, Undefined)

\* p and q are constructed with any values.
InitPair == \E vp \in CtorArgs, vq \in CtorArgs : Constructed(vp, vq)

\* References the caller can pass: its own objects, undefined, and whatever
\* getValue hands out uncopied (the stored reference of a property whose
\* _hasClone is false).
Handed == {value[r] : r \in {s \in Props : ~hasClone[s]}}
SetArgs == {Undefined} \cup CallerObjects \cup Handed

\* DynamicProperty.prototype.setValue, recorded with the call before it.
SetValueCall(p, v, before) ==
    \E out \in {SetValueOutcome(p, Fields(p), v)} :
        /\ value' = [value EXCEPT ![p] = out.after.value]
        /\ hasClone' = [hasClone EXCEPT ![p] = out.after.hasClone]
        /\ hasEquals' = [hasEquals EXCEPT ![p] = out.after.hasEquals]
        /\ last' = [Record("setValue", p, Fields(p), before) EXCEPT
                      !.arg = v, !.fired = out.fired, !.calls = out.calls]
        /\ UNCHANGED <<constant, listeners>>

\* DynamicProperty.prototype.setValue
SetValue(p, v) == SetValueCall(p, v, Before("setValue", p))

\* p = new DynamicProperty(v): a new instance takes the place of p, with a
\* new event that has no listeners.
Construct(p, v) ==
    \E out \in {SetValueOutcome(p, Blank, v)} :
        /\ value' = [value EXCEPT ![p] = out.after.value]
        /\ hasClone' = [hasClone EXCEPT ![p] = out.after.hasClone]
        /\ hasEquals' = [hasEquals EXCEPT ![p] = out.after.hasEquals]
        /\ constant' = [constant EXCEPT ![p] = out.after.constant]
        /\ listeners' = [listeners EXCEPT ![p] = out.after.listeners]
        /\ last' = [Record("construct", p, Blank, NoCall) EXCEPT
                      !.arg = v, !.fired = out.fired, !.calls = out.calls]

\* What calling v.clone / v.equals needs: the function is there.
ClonePresent(v) == Defined(v) /\ IsCloneFunction(v)
EqualsPresent(v) == Defined(v) /\ IsEqualsFunction(v)

\* return this._hasClone ? this._value.clone(result) : this._value;
\* Calling clone on a value that has none throws a TypeError.
GetValueThrows(f) == f.hasClone /\ ~ClonePresent(f.value)
GetValueReturn(f, result) ==
    IF f.hasClone THEN CloneInto(f.value, result) ELSE f.value

ResultArgs == {Undefined, Scratch}

\* A getValue that has a value only at time 0.
GetValueAtTimeZero(p, t, result) ==
    /\ last' = [Call("getValue", p, Fields(p)) EXCEPT
                  !.time = t, !.result = result,
                  !.threw = GetValueThrows(Fields(p)),
                  !.returned = IF GetValueThrows(Fields(p)) \/ t # 0 THEN Undefined
                               ELSE GetValueReturn(Fields(p), result)]
    /\ UNCHANGED <<value, hasClone, hasEquals, constant, listeners>>

\* DynamicProperty.prototype.getValue
GetValue(p, t, result) ==
    /\ last' = [Call("getValue", p, Fields(p)) EXCEPT
                  !.time = t, !.result = result,
                  !.threw = GetValueThrows(Fields(p)),
                  !.returned = IF GetValueThrows(Fields(p)) THEN Undefined
                               ELSE GetValueReturn(Fields(p), result)]
    /\ UNCHANGED <<value, hasClone, hasEquals, constant, listeners>>

\* A setter that lost its test.
ConstantDiffersAlways(cur, b) == TRUE

\* if (this._constant !== value)
ConstantDiffers(cur, b) == cur # b

\* isConstant setter on fields f of property p.
SetConstantOutcome(p, f, b) ==
    IF ConstantDiffers(f.constant, b)
    THEN LET g == [f EXCEPT !.constant = b]
         IN  [after |-> g, fired |-> TRUE, calls |-> Notify(p, g)]
    ELSE [after |-> f, fired |-> FALSE, calls |-> <<>>]

\* A setter that also forgets that the value can be cloned.
SetIsConstantClearingFlag(p, b) ==
    \E out \in {SetConstantOutcome(p, Fields(p), b)} :
        /\ constant' = [constant EXCEPT ![p] = out.after.constant]
        /\ hasClone' = [hasClone EXCEPT ![p] = FALSE]
        /\ last' = [Call("setIsConstant", p, Fields(p)) EXCEPT
                      !.flag = b, !.fired = out.fired, !.calls = out.calls]
        /\ UNCHANGED <<value, hasEquals, listeners>>

\* isConstant : set
SetIsConstant(p, b) ==
    \E out \in {SetConstantOutcome(p, Fields(p), b)} :
        /\ constant' = [constant EXCEPT ![p] = out.after.constant]
        /\ last' = [Call("setIsConstant", p, Fields(p)) EXCEPT
                      !.flag = b, !.fired = out.fired, !.calls = out.calls]
        /\ UNCHANGED <<value, hasClone, hasEquals, listeners>>

\* isConstant : get
GetIsConstant(p) ==
    /\ last' = [Call("getIsConstant", p, Fields(p)) EXCEPT !.bool = constant[p]]
    /\ UNCHANGED <<value, hasClone, hasEquals, constant, listeners>>

\* The arguments equals is called with: a property, nothing, or an object
\* that is not a DynamicProperty.
Others == Props \cup {"absent", "notProperty"}

\* other instanceof DynamicProperty
IsDynamicProperty(o) == o \in Props

\* this._hasEquals && this._value.equals(other._value) is reached, and
\* this._value has no equals function: a TypeError.
EqualsThrows(p, o) ==
    /\ p # o
    /\ IsDynamicProperty(o)
    /\ ~(~hasEquals[p] /\ value[p] = value[o])
    /\ hasEquals[p]
    /\ ~EqualsPresent(value[p])

\* An equals that lost its comparison by reference.
EqualsReturnByEqualsOnly(p, o) ==
    \/ p = o
    \/ /\ IsDynamicProperty(o)
       /\ hasEquals[p]
       /\ ValueEquals(value[p], value[o])

\* return this === other || (other instanceof DynamicProperty && (...));
EqualsReturn(p, o) ==
    \/ p = o
    \/ /\ IsDynamicProperty(o)
       /\ \/ ~hasEquals[p] /\ value[p] = value[o]
          \/ hasEquals[p] /\ ValueEquals(value[p], value[o])

\* DynamicProperty.prototype.equals
Equals(p, o) ==
    /\ last' = [Call("equals", p, Fields(p)) EXCEPT
                  !.other = o, !.threw = EqualsThrows(p, o),
                  !.bool = IF EqualsThrows(p, o) THEN FALSE ELSE EqualsReturn(p, o)]
    /\ UNCHANGED <<value, hasClone, hasEquals, constant, listeners>>

\* Event.addEventListener: a handle not yet subscribed joins at the end.
Subscribed(ls) == {ls[i] : i \in 1 .. Len(ls)}
AddEventListener(p, l) ==
    /\ l \notin Subscribed(listeners[p])
    /\ listeners' = [listeners EXCEPT ![p] = Append(@, l)]
    /\ last' = [Call("addEventListener", p, Fields(p)) EXCEPT !.listener = l]
    /\ UNCHANGED <<value, hasClone, hasEquals, constant>>

\* Event.removeEventListener: the handle leaves, the others keep their order.
RemoveEventListener(p, l) ==
    /\ l \in Subscribed(listeners[p])
    /\ listeners' = [listeners EXCEPT ![p] = SelectSeq(@, LAMBDA x : x # l)]
    /\ last' = [Call("removeEventListener", p, Fields(p)) EXCEPT !.listener = l]
    /\ UNCHANGED <<value, hasClone, hasEquals, constant>>

\* The calls on the value of property p.
ValueCalls(p) ==
    \/ \E v \in SetArgs : SetValue(p, v)
    \/ \E t \in Times, r \in ResultArgs : GetValue(p, t, r)
    \/ \E o \in Others : Equals(p, o)

\* The calls on the isConstant flag of property p.
FlagCalls(p) ==
    \/ \E b \in BOOLEAN : SetIsConstant(p, b)
    \/ GetIsConstant(p)

\* The calls on the event of property p.
EventCalls(p) ==
    \/ \E l \in Listeners : AddEventListener(p, l)
    \/ \E l \in Listeners : RemoveEventListener(p, l)

\* One property in use, with its flag and its listeners; q stays as
\* constructed and serves as the other property of equals.
Next ==
    \/ ValueCalls("p")
    \/ FlagCalls("p")
    \/ EventCalls("p")
    \/ \E v \in CtorArgs : Construct("p", v)

Spec == Init /\ [][Next]_vars

\* The calls that set and compare the value of property p; two calls in a
\* row are not followed here.
PairCalls(p) ==
    \/ \E v \in SetArgs : SetValueCall(p, v, NoCall)
    \/ \E o \in Others : Equals(p, o)
    \/ \E v \in CtorArgs : Construct(p, v)

\* Both properties in use: their values are set and compared.
NextPair == \E p \in Props : PairCalls(p)

SpecPair == InitPair /\ [][NextPair]_vars

(***************************************************************************)
(* The claims.  P is the receiver of the last call.                        *)
(***************************************************************************)
P == last.prop

\* The last call was setValue, made right after a setValue on the same property.
TwoSetValues == last.op = "setValue" /\ last.before.op = "setValue"

\* C1: the cached flags _hasClone and _hasEquals of every property say
\* exactly whether the value it holds now has a clone / an equals operation.
C1_FlagsMatchStoredValue ==
    \A p \in Props :
        /\ hasClone[p] = ClonePresent(value[p])
        /\ hasEquals[p] = EqualsPresent(value[p])

\* C2: setValue with the very reference the property holds changes no field
\* of the property and invokes no listener.
C2_SameReferenceIsNoOp ==
    (last.op = "setValue" /\ last.arg = last.pre.value)
        => /\ Fields(P) = last.pre
           /\ ~last.fired
           /\ last.calls = <<>>

\* setValue was called with the held reference, an object, while a listener
\* was subscribed.
C2_Witness ==
    /\ last.op = "setValue"
    /\ last.arg = last.pre.value
    /\ Defined(last.arg)
    /\ last.pre.listeners # <<>>

\* C3: when setValue(v) raised the event, a setValue(v) with the same
\* reference right after it raises nothing and changes no field.
C3_RepeatedSetValueIsNoOp ==
    (TwoSetValues /\ last.before.fired /\ last.before.arg = last.arg)
        => /\ ~last.fired
           /\ last.calls = <<>>
           /\ Fields(P) = last.pre

\* setValue(a) then setValue(b): a and b different objects, both with equals,
\* a.equals(b) true.
EqualPair ==
    /\ TwoSetValues
    /\ EqualsPresent(last.before.arg)
    /\ EqualsPresent(last.arg)
    /\ last.before.arg # last.arg
    /\ ValueEquals(last.before.arg, last.arg)

\* C4 as stated: of setValue(a), setValue(b) with a, b equal and different
\* objects, the first call raises the event and the second does not, and the
\* second keeps the stored object.
C4_FirstCallOnlyFires ==
    EqualPair
        => /\ last.before.fired
           /\ ~last.fired
           /\ value[P] = last.pre.value

\* C4 as amended: the second call raises nothing and keeps the stored object;
\* the first call raises the event exactly when a.equals(the value held
\* before it) is false.
C4_SecondCallSuppressed ==
    EqualPair
        => /\ last.before.fired = ~last.before.equalOld
           /\ ~last.fired
           /\ last.calls = <<>>
           /\ value[P] = last.pre.value

\* The pair was set, the first call raised the event and the property holds
\* its own copy of a while a listener is subscribed.
C4_Witness ==
    /\ EqualPair
    /\ last.before.fired
    /\ last.pre.value # last.before.arg
    /\ last.pre.listeners # <<>>

C6_CloneableIsCopiedOnRead ==
    (last.op = "getValue" /\ ClonePresent(last.pre.value))
        => /\ ~last.threw
           /\ last.returned # last.pre.value
           /\ last.returned.content = last.pre.value.content

\* C7: when the held value has no clone operation, getValue returns the held
\* reference itself, whatever time and result are.
C7_NotCloneableIsAliased ==
    (last.op = "getValue" /\ ~ClonePresent(last.pre.value))
        => /\ ~last.threw
           /\ last.returned = last.pre.value

C9_ListenersInvokedInOrder ==
    /\ last.fired
        => /\ Len(last.calls) = Len(last.pre.listeners)
           /\ \A i \in 1 .. Len(last.calls) :
                /\ last.calls[i].listener = last.pre.listeners[i]
                /\ last.calls[i].arg = P
    /\ ~last.fired => last.calls = <<>>
    /\ last.op = "removeEventListener"
        => last.listener \notin Subscribed(listeners[P])

\* Both listeners were invoked, the one with the higher handle first because
\* it subscribed first.
C9_Witness ==
    /\ last.fired
    /\ Len(last.calls) = 2
    /\ last.calls[1].listener = 2
    /\ last.calls[2].listener = 1

\* What C10 says p.equals(o) returns.
C10_Expected(p, o) ==
    \/ p = o
    \/ /\ o \in Props
       /\ \/ /\ ~EqualsPresent(value[p])
             /\ ~EqualsPresent(value[o])
             /\ value[p] = value[o]
          \/ /\ EqualsPresent(value[p])
             /\ ValueEquals(value[p], value[o])

\* C10: p.equals(o) returns true for o = p; for another property o it returns
\* whether neither held value has equals and both are the same reference, or
\* p's held value has equals and finds o's equal; for any other o, false.
C10_EqualsResult ==
    last.op = "equals"
        => /\ ~last.threw
           /\ last.bool = C10_Expected(P, last.other)

\* x is a copy made by v.clone(): another object of v's type and content.
IsCloneOf(x, v) ==
    /\ Defined(x)
    /\ x # v
    /\ x.cap = v.cap
    /\ x.content = v.content

\* C11: after new DynamicProperty(v) or setValue(v) with v defined,
\* getValue() returns v or a value of v's content; and when v has clone and
\* equals, the property equals every other property that holds a clone of v.
C11_ValueReadBack ==
    (last.op \in {"construct", "setValue"} /\ Defined(last.arg))
        => /\ ~GetValueThrows(Fields(P))
           /\ \/ GetValueReturn(Fields(P), Undefined) = last.arg
              \/ /\ Defined(GetValueReturn(Fields(P), Undefined))
                 /\ GetValueReturn(Fields(P), Undefined).content = last.arg.content
           /\ (ClonePresent(last.arg) /\ EqualsPresent(last.arg))
                => \A q \in Props \ {P} :
                      IsCloneOf(value[q], last.arg)
                          => ~EqualsThrows(P, q) /\ EqualsReturn(P, q)

\* C12: new DynamicProperty(undefined) holds undefined with both flags false
\* and raises nothing; its getValue returns undefined, and it equals every
\* other property that holds undefined.
C12_AbsentConstruction ==
    (last.op = "construct" /\ ~Defined(last.arg))
        => /\ value[P] = Undefined
           /\ ~hasClone[P]
           /\ ~hasEquals[P]
           /\ ~last.fired
           /\ last.calls = <<>>
           /\ ~GetValueThrows(Fields(P))
           /\ \A r \in ResultArgs : GetValueReturn(Fields(P), r) = Undefined
           /\ \A q \in Props \ {P} :
                ~Defined(value[q]) => ~EqualsThrows(P, q) /\ EqualsReturn(P, q)

\* A property was constructed without a value while the other one holds
\* undefined.
C12_Witness ==
    /\ last.op = "construct"
    /\ ~Defined(last.arg)
    /\ \E q \in Props \ {P} : ~Defined(value[q])

\* C13: no call throws: getValue, setValue, equals and the isConstant
\* accessors never call clone or equals on a held value that lacks it.
C13_NoCallThrows ==
    last.op \in {"construct", "setValue", "getValue", "equals",
                 "setIsConstant", "getIsConstant"}
        => ~last.threw

\* C14: a listener invoked by setValue finds the new value and the new flags
\* in the property, so a getValue it makes returns the new value; a listener
\* invoked by an isConstant assignment finds the new flag.
C14_UpdateBeforeNotify ==
    /\ (last.op \in {"setValue", "construct"} /\ last.fired)
        => \A i \in 1 .. Len(last.calls) :
            /\ last.calls[i].value = value[P]
            /\ last.calls[i].value # last.pre.value
            /\ last.calls[i].hasClone = ClonePresent(last.arg)
            /\ last.calls[i].hasEquals = EqualsPresent(last.arg)
            /\ ~GetValueThrows(last.calls[i])
            /\ GetValueReturn(last.calls[i], Undefined).kind = last.arg.kind
            /\ GetValueReturn(last.calls[i], Undefined).content = last.arg.content
    /\ (last.op = "setIsConstant" /\ last.fired)
        => \A i \in 1 .. Len(last.calls) :
            /\ last.calls[i].constant = last.flag
            /\ last.calls[i].constant = constant[P]

\* A listener was invoked by a setValue that replaced a value by one of
\* another content.
C14_Witness ==
    /\ last.op = "setValue"
    /\ last.fired
    /\ Len(last.calls) > 0
    /\ Defined(last.pre.value)
    /\ Defined(last.arg)
    /\ last.pre.value.content # last.arg.content

\* C15: a setValue(v) that replaces the held value stores a new copy of v,
\* not v, when v has clone, and v itself when it has not.
C15_CopyOnStore ==
    (last.op \in {"setValue", "construct"} /\ last.fired)
        => IF ClonePresent(last.arg)
           THEN /\ IsCloneOf(value[P], last.arg)
                /\ value[P] # last.pre.value
                /\ value[P] \notin CallerObjects
           ELSE value[P] = last.arg

\* setValue stored a copy of an object with clone in place of an earlier copy.
C15_Witness ==
    /\ last.op = "setValue"
    /\ last.fired
    /\ ClonePresent(last.arg)
    /\ ClonePresent(last.pre.value)
    /\ value[P] # last.arg

\* C16: a setValue call raises the event at most once, and raises it exactly
\* when it leaves another reference in the property than it found.
C16_FiresIffReplaced ==
    last.op = "setValue"
        => /\ last.fired = (value[P] # last.pre.value)
           /\ Len(last.calls) = IF last.fired THEN Len(last.pre.listeners) ELSE 0

\* setValue kept the held object for an equal one while a listener was
\* subscribed.
C16_Witness ==
    /\ last.op = "setValue"
    /\ last.arg # last.pre.value
    /\ ~last.fired
    /\ last.pre.listeners # <<>>

\* C17: getValue and equals change no field of the property and invoke no
\* listener, and what getValue returns or throws is decided by the fields
\* and result alone, not by time.
C17_PureObservers ==
    /\ last.op \in {"getValue", "equals"}
        => /\ Fields(P) = last.pre
           /\ ~last.fired
           /\ last.calls = <<>>
    /\ last.op = "getValue"
        => /\ last.threw = GetValueThrows(last.pre)
           /\ ~last.threw => last.returned = GetValueReturn(last.pre, last.result)

\* getValue was called at a later time on a property that copies on read and
\* has a listener.
C17_Witness ==
    /\ last.op = "getValue"
    /\ last.time > 0
    /\ ~last.threw
    /\ last.returned # last.pre.value
    /\ last.pre.listeners # <<>>

\* C18: an isConstant assignment leaves the value and the capability flags
\* as they were, so getValue gives the same before and after it; setValue
\* leaves the isConstant flag as it was.
C18_ValueAndFlagIndependent ==
    /\ last.op = "setIsConstant"
        => /\ value[P] = last.pre.value
           /\ hasClone[P] = last.pre.hasClone
           /\ hasEquals[P] = last.pre.hasEquals
           /\ GetValueThrows(Fields(P)) = GetValueThrows(last.pre)
           /\ \A r \in ResultArgs :
                GetValueReturn(Fields(P), r) = GetValueReturn(last.pre, r)
    /\ last.op = "setValue" => constant[P] = last.pre.constant

\* isConstant was changed on a property that holds a value with clone.
C18_Witness ==
    /\ last.op = "setIsConstant"
    /\ last.fired
    /\ last.pre.hasClone
    /\ ClonePresent(last.pre.value)

====
